---- MODULE Spec2Model ----
(***************************************************************************)
(* Model of src/inspect_ai/_display/full_log/display.py: the display       *)
(* multiplexer FullLogDisplay with its two tees, _TeeProgress and          *)
(* _TeeTaskDisplay.                                                        *)
(*                                                                         *)
(* The two wrapped displays (self._full, self._sink), the log file, the    *)
(* root logger and the logging.FileHandler are collaborators.  Every call  *)
(* the code makes on one of them is an event [who, op, arg, res]; res is   *)
(* "ok" when the call returns and "raise" when it raises.  The events of   *)
(* one run of a method are a sequence in program order.  A scope written   *)
(* as a generator context manager runs in two phases, the part before the  *)
(* yield (enter) and the part after it (exit); the caller's body runs in   *)
(* between, as further actions.  The exit of a collaborator's scope either *)
(* returns, leaving the exception in flight as it is, or raises.           *)
(*                                                                         *)
(* Three specifications share the actions.  Spec is one display with all   *)
(* its operations and every outcome of the collaborators' calls.  SpecLife *)
(* is one process with several displays, the log-path resolver, the clock  *)
(* and the terminal.  SpecTrace is one display whose task scopes record    *)
(* the calls made on their handles.                                        *)
(***************************************************************************)
EXTENDS Integers, Sequences, FiniteSets, TLC

\* ---- bounds of the model -------------------------------------------------
MaxDisplays == 2
MaxScreens == 2
MaxCalls == 2
MaxClock == 2
MaxTrace == 3

\* ---- inputs ---------------------------------------------------------------
Displays == 1..MaxDisplays
Outcomes == {"ok", "raise"}
\* Outcomes of two calls in sequence, and of the three calls of entering two
\* nested scopes (enter, enter, exit of the first): the outcome of a call that
\* is not reached is left at "ok".
Calls2 == {<<"ok", "ok">>, <<"ok", "raise">>, <<"raise", "ok">>}
Enter3 ==
    {<<"ok", "ok", "ok">>, <<"ok", "raise", "ok">>, <<"ok", "raise", "raise">>,
     <<"raise", "ok", "ok">>}
Ns == {1, 3}
Samples == {<<1, 2>>, <<2, 2>>}
MetricLists == {<<>>, <<"accuracy">>}
TaskResults == {"success", "failure", "cancelled"}
Profiles == {"p1", "p2"}
ScreenArgs == {[tasks |-> <<"t1", "t2">>, parallel |-> FALSE]}

Suffixes == {"0a1b2c3d", "4e5f6a7b"}
Mains == {"main1", "main2"}
Messages == {"m1", "m2"}
Totals == {5, 10}
Counters == {<<"retries", "2">>}

\* What the backend hands back: the progress handle of progress(total), the
\* result of run_task_app(main).
Handles == {"p1", "p2"}
AppResults == {"v1", "v2"}
Raise == {"raise"}

\* The handlers other code has put on the root logger.
Foreign == {0}

None == <<>>
BodyExceptions == {<<"body">>, <<"cancelled">>}

VARIABLES
    proc,       \* the process: _resolved_log_path, its clock, its terminal, the log file
    display,    \* per FullLogDisplay instance: its file, its handler, call counts
    handlers,   \* logging.getLogger().handlers, by owning instance
    stack,      \* the scopes the caller has open, outermost first
    exc,        \* the exception in flight in the caller, or None
    last        \* the most recent method run: its events and its outcome

vars == <<proc, display, handlers, stack, exc, last>>

\* ---- events and Python statement sequencing -------------------------------
Ev(who, op, arg, res) == [who |-> who, op |-> op, arg |-> arg, res |-> res]

\* An exception is known by who raised it.
ExcOf(e) == <<e.who>>

\* Statements in sequence: the first call that raises ends the block.
RECURSIVE Run(_)
Run(s) ==
    IF s = <<>> THEN <<>>
    ELSE IF Head(s).res = "raise" THEN <<Head(s)>>
    ELSE <<Head(s)>> \o Run(Tail(s))

Raises(evs) == {i \in DOMAIN evs : evs[i].res = "raise"}

MaxOf(S) == CHOOSE x \in S : \A y \in S : y <= x

\* Mutant: an exception that came in is handled in the method.
Out_Swallow(evs, inc) ==
    IF Raises(evs) = {} THEN None ELSE ExcOf(evs[MaxOf(Raises(evs))])

\* The exception that leaves a method: the latest one raised in it, else the
\* one that came in (inc).
Out(evs, inc) ==
    IF Raises(evs) = {} THEN inc ELSE ExcOf(evs[MaxOf(Raises(evs))])

Count(evs, who, op) ==
    Cardinality({i \in DOMAIN evs : evs[i].who = who /\ evs[i].op = op})

Entered(evs) == \E i \in DOMAIN evs : evs[i].op = "yield"

\* ---- _TeeProgress ---------------------------------------------------------
\* Mutant: the branches are called in the other order.
TeeProgress_update_BFirst(n, ra, rb) ==
    Run(<<Ev("b", "update", <<n>>, rb), Ev("a", "update", <<n>>, ra)>>)

\* self._a.update(n); self._b.update(n)
TeeProgress_update(n, ra, rb) ==
    Run(<<Ev("a", "update", <<n>>, ra), Ev("b", "update", <<n>>, rb)>>)

\* self._a.complete(); self._b.complete()
TeeProgress_complete(ra, rb) ==
    Run(<<Ev("a", "complete", <<>>, ra), Ev("b", "complete", <<>>, rb)>>)

\* ---- _TeeTaskDisplay ------------------------------------------------------
\* Two context managers in one with statement are nested, the first outermost:
\* when entering the second raises, the first is exited (xa) with that
\* exception; when both are entered the generator yields.
With2Enter(ea, eb, xa, y) ==
    IF ea.res = "raise" THEN <<ea>>
    ELSE IF eb.res = "raise" THEN <<ea, eb, xa>>
    ELSE <<ea, eb, y>>

\* with self._a.progress() as pa, self._b.progress() as pb:
\*     yield _TeeProgress(pa, pb)
TeeTaskDisplay_progress_enter(ra, rb, xa) ==
    With2Enter(Ev("a", "progress.enter", <<>>, ra),
               Ev("b", "progress.enter", <<>>, rb),
               Ev("a", "progress.exit", <<<<"b">>>>, xa),
               Ev("caller", "yield", <<"TeeProgress", "a", "b">>, "ok"))

\* Mutant: the two scopes are closed by hand, one call after the other, so a
\* raising exit of b leaves a open.
TeeTaskDisplay_progress_exit_Flat(inc, xb, xa) ==
    Run(<<Ev("b", "progress.exit", <<inc>>, xb),
          Ev("a", "progress.exit", <<inc>>, xa)>>)

\* Leaving the with statement: the inner scope exits first, with the exception
\* in flight; the outer one exits next, whatever the inner exit did.
TeeTaskDisplay_progress_exit(inc, xb, xa) ==
    LET eb == Ev("b", "progress.exit", <<inc>>, xb)
    IN  <<eb, Ev("a", "progress.exit", <<Out(<<eb>>, inc)>>, xa)>>

\* Mutant: the sample count is given to a only.
TeeTaskDisplay_sample_complete_AOnly(sample, ra, rb) ==
    <<Ev("a", "sample_complete", sample, ra)>>

\* self._a.sample_complete(complete, total); self._b.sample_complete(complete, total)
TeeTaskDisplay_sample_complete(sample, ra, rb) ==
    Run(<<Ev("a", "sample_complete", sample, ra),
          Ev("b", "sample_complete", sample, rb)>>)

\* self._a.update_metrics(metrics); self._b.update_metrics(metrics)
TeeTaskDisplay_update_metrics(metrics, ra, rb) ==
    Run(<<Ev("a", "update_metrics", metrics, ra),
          Ev("b", "update_metrics", metrics, rb)>>)

\* Mutant: b is called in a finally clause, whether or not a raised.
TeeTaskDisplay_complete_Finally(result, ra, rb) ==
    <<Ev("a", "complete", <<result>>, ra), Ev("b", "complete", <<result>>, rb)>>

\* Mutant: b is called before a.
TeeTaskDisplay_complete_BFirst(result, ra, rb) ==
    Run(<<Ev("b", "complete", <<result>>, rb),
          Ev("a", "complete", <<result>>, ra)>>)

\* Mutant: a is called twice for one call of the tee.
TeeTaskDisplay_complete_Twice(result, ra, rb) ==
    Run(<<Ev("a", "complete", <<result>>, ra),
          Ev("a", "complete", <<result>>, ra),
          Ev("b", "complete", <<result>>, rb)>>)

\* self._a.complete(result); self._b.complete(result)
TeeTaskDisplay_complete(result, ra, rb) ==
    Run(<<Ev("a", "complete", <<result>>, ra),
          Ev("b", "complete", <<result>>, rb)>>)

\* ---- FullLogDisplay -------------------------------------------------------
\* Mutant: the handler is removed from the logger and never closed.
Finalize_NoClose(rf, rc) ==
    Run(<<Ev("file", "flush", <<>>, rf),
          Ev("logger", "removeHandler", <<>>, "ok")>>)

\* finally: self._log_file.flush()
\*          logging.getLogger().removeHandler(self._log_handler)
\*          self._log_handler.close()
\* flush and close do file I/O and may raise; removeHandler does not.
Finalize(rf, rc) ==
    Run(<<Ev("file", "flush", <<>>, rf),
          Ev("logger", "removeHandler", <<>>, "ok"),
          Ev("handler", "close", <<>>, rc)>>)

\* try: async with self._full.task_screen(tasks, parallel) as screen:
\*          async with self._sink.task_screen(tasks, parallel):
\*              yield screen
\* A scope that fails to open leaves through the finally clause at once.
FullLogDisplay_task_screen_enter(tasks, parallel, r1, r2, x1, rf, rc) ==
    LET body == With2Enter(
                    Ev("full", "task_screen.enter", <<tasks, parallel>>, r1),
                    Ev("sink", "task_screen.enter", <<tasks, parallel>>, r2),
                    Ev("full", "task_screen.exit",
                       <<<<"sink">>>>, x1),
                    Ev("caller", "yield", <<"screen", "full">>, "ok"))
    IN  IF Entered(body) THEN body ELSE body \o Finalize(rf, rc)

\* Mutant: the finally clause sits inside the rich scope, so it runs before
\* that scope exits.
FullLogDisplay_task_screen_exit_Inside(inc, x2, x1, rf, rc) ==
    LET e2 == Ev("sink", "task_screen.exit", <<inc>>, x2)
        fin == Finalize(rf, rc)
    IN  <<e2>> \o fin
        \o <<Ev("full", "task_screen.exit", <<Out(<<e2>> \o fin, inc)>>, x1)>>

FullLogDisplay_task_screen_exit(inc, x2, x1, rf, rc) ==
    LET e2 == Ev("sink", "task_screen.exit", <<inc>>, x2)
    IN  <<e2, Ev("full", "task_screen.exit", <<Out(<<e2>>, inc)>>, x1)>>
        \o Finalize(rf, rc)

\* with self._full.task(profile) as full_td, self._sink.task(profile) as sink_td:
\*     yield _TeeTaskDisplay(full_td, sink_td)
FullLogDisplay_task_enter(profile, r1, r2, x1) ==
    With2Enter(Ev("full", "task.enter", <<profile>>, r1),
               Ev("sink", "task.enter", <<profile>>, r2),
               Ev("full", "task.exit", <<<<"sink">>>>, x1),
               Ev("caller", "yield", <<"TeeTaskDisplay", "full", "sink">>, "ok"))

\* Mutant: the scopes are closed in the order they were opened.
FullLogDisplay_task_exit_FullFirst(inc, x2, x1) ==
    LET e1 == Ev("full", "task.exit", <<inc>>, x1)
    IN  <<e1, Ev("sink", "task.exit", <<Out(<<e1>>, inc)>>, x2)>>

\* Mutant: the task scope tears the log down as the task screen does.
FullLogDisplay_task_exit_Finalize(inc, x2, x1) ==
    LET e2 == Ev("sink", "task.exit", <<inc>>, x2)
    IN  <<e2, Ev("full", "task.exit", <<Out(<<e2>>, inc)>>, x1)>>
        \o Finalize("ok", "ok")

FullLogDisplay_task_exit(inc, x2, x1) ==
    LET e2 == Ev("sink", "task.exit", <<inc>>, x2)
    IN  <<e2, Ev("full", "task.exit", <<Out(<<e2>>, inc)>>, x1)>>

\* ---- FullLogDisplay, pass-through operations ---------------------------------
\* full is self._full, the backend object the constructor stored.

\* self._full.print(message)
FullLogDisplay_print(full, message, r) ==
    <<Ev(full, "print", <<message>>, r)>>

\* self._full.display_counter(caption, value)
FullLogDisplay_display_counter(full, caption, value, r) ==
    <<Ev(full, "display_counter", <<caption, value>>, r)>>

\* return self._full.run_task_app(main); v is what the backend returns, or
\* "raise".
FullLogDisplay_run_task_app(full, main, v) ==
    Run(<<Ev(full, "run_task_app", <<main>>, v),
          Ev("caller", "return", <<v>>, "ok")>>)

\* Mutant: the sink is given the progress scope as well.
FullLogDisplay_progress_enter_Tee(full, total, p) ==
    Run(<<Ev(full, "progress.enter", <<total>>, p),
          Ev("sink", "progress.enter", <<total>>, "ok"),
          Ev("caller", "yield", <<p>>, "ok")>>)

\* with self._full.progress(total) as p: yield p; p is the handle the backend
\* gives, or "raise".
FullLogDisplay_progress_enter(full, total, p) ==
    Run(<<Ev(full, "progress.enter", <<total>>, p),
          Ev("caller", "yield", <<p>>, "ok")>>)

FullLogDisplay_progress_exit(full, inc, x) ==
    <<Ev(full, "progress.exit", <<inc>>, x)>>

\* with self._full.suspend_task_app(): yield
FullLogDisplay_suspend_task_app_enter(full, r) ==
    Run(<<Ev(full, "suspend_task_app.enter", <<>>, r),
          Ev("caller", "yield", <<>>, "ok")>>)

FullLogDisplay_suspend_task_app_exit(full, inc, x) ==
    <<Ev(full, "suspend_task_app.exit", <<inc>>, x)>>

\* ---- state ----------------------------------------------------------------
NoDisplay ==
    [inited |-> FALSE, full |-> "none", log_path |-> None, fileOpen |-> FALSE,
     opens |-> 0, adds |-> 0, flushes |-> 0, removes |-> 0, closes |-> 0,
     handlerClosed |-> FALSE, screens |-> 0]

\* The process at start: no log path resolved yet, standard output a terminal,
\* no notebook host, nothing written to the log file.
NoProc ==
    [path |-> None, evals |-> 0, now |-> 1, tty |-> TRUE, jupyter |-> FALSE,
     data |-> FALSE]

NoCall ==
    [h |-> "none", d |-> 0, arg |-> <<>>, ev |-> <<>>, done |-> TRUE,
     inc |-> None, out |-> None]

\* An open scope: its kind, its instance, the events of entering it and, for a
\* task scope, the complete(result) calls made on its handle (calls), those
\* each branch received (fwdA, fwdB) and those in which a raised (aRaised).
\* A task scope opened with rec keeps in hist every call the caller made on its
\* handle and the branch calls that followed, for as long as none has raised.
Frame(kind, d, log) ==
    [kind |-> kind, d |-> d, log |-> log, calls |-> 0, fwdA |-> 0, fwdB |-> 0,
     aRaised |-> 0, rec |-> FALSE, hist |-> <<>>]

Init ==
    /\ proc = NoProc
    /\ display = [d \in Displays |-> NoDisplay]
    /\ handlers = Foreign
    /\ stack = <<>>
    /\ exc = None
    /\ last = NoCall

Top == stack[Len(stack)]

RECURSIVE Sum(_, _)
Sum(f, S) == IF S = {} THEN 0 ELSE LET x == CHOOSE y \in S : TRUE
                                   IN  f[x] + Sum(f, S \ {x})

\* The task-screen scopes opened so far, over all instances.
Screens == Sum([d \in Displays |-> display[d].screens], Displays)

\* The caller's nesting of scopes: the task screen is the outermost scope, a
\* task scope is opened inside the task screen of its display, a tee progress
\* scope is opened from the handle of the open task scope.
MayOpen(kind, d) ==
    CASE kind = "task_screen" -> stack = <<>>
      [] kind = "task" ->
            IF stack = <<>> THEN FALSE
            ELSE Top.kind = "task_screen" /\ Top.d = d
      [] kind = "tee_progress" ->
            IF stack = <<>> THEN FALSE ELSE Top.kind = "task"
      [] kind \in {"progress", "suspend"} ->
            IF stack = <<>> THEN TRUE
            ELSE Top.kind = "task_screen" /\ Top.d = d

\* The open scopes of one kind (at most one, by the nesting above).
Open(kind) == {i \in DOMAIN stack : stack[i].kind = kind}

Pop == SubSeq(stack, 1, Len(stack) - 1)

\* What the finally clause of task_screen did to instance d, read off the
\* events evs of the method run.
AfterFinalize(d, evs) ==
    [display EXCEPT
        ![d].flushes = @ + Count(evs, "file", "flush"),
        ![d].removes = @ + Count(evs, "logger", "removeHandler"),
        ![d].closes = @ + Count(evs, "handler", "close"),
        ![d].handlerClosed = @ \/ Count(evs, "handler", "close") > 0]

\* The sink display writes the header of the task screen to the log file when
\* its scope is entered.
SinkWrote(evs) ==
    \E i \in DOMAIN evs :
        evs[i].who = "sink" /\ evs[i].op = "task_screen.enter" /\ evs[i].res = "ok"

\* Mutant: the teardown empties the handler list of the logger.
HandlersAfter_Clear(d, evs) ==
    IF Count(evs, "logger", "removeHandler") > 0 THEN {} ELSE handlers

\* Logger.removeHandler drops the handler if it is in the list.
HandlersAfter(d, evs) ==
    IF Count(evs, "logger", "removeHandler") > 0 THEN handlers \ {d} ELSE handlers

\* ---- default_plain_log_path -------------------------------------------------
\* Mutant: the path is computed on every call.
default_plain_log_path_NoCache(p, sfx) ==
    [p EXCEPT !.path = <<p.now, sfx>>, !.evals = @ + 1]

\* if _resolved_log_path is None: timestamp, hash_suffix, os.makedirs, join.
\* The process after a call; the call returns its path.
default_plain_log_path(p, sfx) ==
    IF p.path = None
    THEN [p EXCEPT !.path = <<p.now, sfx>>, !.evals = @ + 1]
    ELSE p

\* A call of the resolver from outside the display (active.py, inspect_wandb).
DefaultPlainLogPath(sfx) ==
    /\ exc = None
    /\ proc' = default_plain_log_path(proc, sfx)
    /\ last' = [h |-> "default_plain_log_path", d |-> 0, arg |-> <<>>,
                ev |-> <<Ev("caller", "return", <<proc'.path>>, "ok")>>,
                done |-> TRUE, inc |-> None, out |-> None]
    /\ UNCHANGED <<display, handlers, stack, exc>>

\* ---- FullLogDisplay.__init__ ----------------------------------------------
\* Mutant: the test of the notebook host is left out.
SelectBackend_TtyOnly(tty, jupyter) == IF tty THEN "textual" ELSE "plain"

\* if sys.stdout.isatty() and not rich.get_console().is_jupyter:
\*     TextualDisplay() else PlainDisplay()
SelectBackend(tty, jupyter) ==
    IF tty /\ ~jupyter THEN "textual" ELSE "plain"

\* Mutant: the log file is opened for append.
OpenLogFile_Append(data) == data

\* open(self.log_path, "w", buffering=1): what the file holds after the open.
OpenLogFile(data) == FALSE

\* self.log_path = default_plain_log_path(); open(self.log_path, "w", ...);
\* logging.FileHandler(self.log_path, mode="a");
\* logging.getLogger().addHandler(self._log_handler)
FullLogDisplay_init(d, sfx) ==
    /\ exc = None
    /\ stack = <<>>
    /\ ~display[d].inited
    /\ \A e \in Displays : e < d => display[e].inited
    /\ proc' = [default_plain_log_path(proc, sfx) EXCEPT
                   !.data = OpenLogFile(proc.data)]
    /\ display' = [display EXCEPT
                      ![d].inited = TRUE,
                      ![d].full = SelectBackend(proc.tty, proc.jupyter),
                      ![d].log_path = proc'.path,
                      ![d].fileOpen = TRUE,
                      ![d].opens = @ + 1, ![d].adds = @ + 1]
    /\ handlers' = handlers \cup {d}
    /\ last' = [h |-> "FullLogDisplay.__init__", d |-> d,
                arg |-> <<proc.tty, proc.jupyter>>,
                ev |-> <<Ev("file", "open", <<proc'.path, "w">>,
                            IF proc.data /\ ~proc'.data THEN "truncated"
                            ELSE "ok"),
                         Ev("logger", "addHandler", <<>>, "ok")>>,
                done |-> TRUE, inc |-> None, out |-> None]
    /\ UNCHANGED <<stack, exc>>

\* ---- the process ---------------------------------------------------------------
\* Time passes.
Tick ==
    /\ proc.now < MaxClock
    /\ proc' = [proc EXCEPT !.now = @ + 1]
    /\ UNCHANGED <<display, handlers, stack, exc, last>>

\* Standard output is redirected, or the console finds a notebook host.
EnvChange(tty, jupyter) ==
    /\ <<tty, jupyter>> # <<proc.tty, proc.jupyter>>
    /\ proc' = [proc EXCEPT !.tty = tty, !.jupyter = jupyter]
    /\ UNCHANGED <<display, handlers, stack, exc, last>>

\* ---- FullLogDisplay.task_screen -------------------------------------------
TaskScreenEnter(d, tasks, parallel, r1, r2, x1, rf, rc) ==
    LET evs == FullLogDisplay_task_screen_enter(tasks, parallel, r1, r2, x1, rf, rc)
    IN  /\ exc = None
        /\ display[d].inited
        /\ Screens < MaxScreens
        /\ MayOpen("task_screen", d)
        /\ last' = [h |-> "FullLogDisplay.task_screen", d |-> d,
                    arg |-> <<tasks, parallel>>,
                    ev |-> evs, done |-> ~Entered(evs), inc |-> None,
                    out |-> IF Entered(evs) THEN None ELSE Out(evs, None)]
        /\ exc' = IF Entered(evs) THEN None ELSE Out(evs, None)
        /\ stack' = IF Entered(evs)
                    THEN Append(stack, Frame("task_screen", d, evs))
                    ELSE stack
        /\ display' = [AfterFinalize(d, evs) EXCEPT ![d].screens = @ + 1]
        /\ handlers' = HandlersAfter(d, evs)
        /\ proc' = [proc EXCEPT !.data = @ \/ SinkWrote(evs)]

TaskScreenExit(x2, x1, rf, rc) ==
    /\ stack # <<>>
    /\ Top.kind = "task_screen"
    /\ LET evs == FullLogDisplay_task_screen_exit(exc, x2, x1, rf, rc)
       IN  /\ last' = [h |-> "FullLogDisplay.task_screen", d |-> Top.d,
                       arg |-> Top.log[1].arg, ev |-> Top.log \o evs,
                       done |-> TRUE, inc |-> exc, out |-> Out(evs, exc)]
           /\ exc' = Out(evs, exc)
           /\ display' = AfterFinalize(Top.d, evs)
           /\ handlers' = HandlersAfter(Top.d, evs)
    /\ stack' = Pop
    /\ UNCHANGED proc

\* ---- FullLogDisplay.task --------------------------------------------------
TaskEnter(d, profile, rec, r1, r2, x1) ==
    LET evs == FullLogDisplay_task_enter(profile, r1, r2, x1)
    IN  /\ exc = None
        /\ display[d].inited
        /\ MayOpen("task", d)
        /\ last' = [h |-> "FullLogDisplay.task", d |-> d, arg |-> <<profile>>,
                    ev |-> evs, done |-> ~Entered(evs), inc |-> None,
                    out |-> IF Entered(evs) THEN None ELSE Out(evs, None)]
        /\ exc' = IF Entered(evs) THEN None ELSE Out(evs, None)
        /\ stack' = IF Entered(evs)
                    THEN Append(stack, [Frame("task", d, evs) EXCEPT !.rec = rec])
                    ELSE stack
        /\ UNCHANGED <<proc, display, handlers>>

TaskExit(x2, x1) ==
    /\ stack # <<>>
    /\ Top.kind = "task"
    /\ LET evs == FullLogDisplay_task_exit(exc, x2, x1)
       IN  /\ last' = [h |-> "FullLogDisplay.task", d |-> Top.d,
                       arg |-> Top.log[1].arg,
                       ev |-> Top.log \o Top.hist \o evs,
                       done |-> TRUE, inc |-> exc, out |-> Out(evs, exc)]
           /\ exc' = Out(evs, exc)
           /\ display' = AfterFinalize(Top.d, evs)
           /\ handlers' = HandlersAfter(Top.d, evs)
    /\ stack' = Pop
    /\ UNCHANGED proc

\* ---- _TeeTaskDisplay, the handle of an open task scope (frame i) -----------
TeeCall(h, i, arg, evs) ==
    /\ exc = None
    /\ last' = [h |-> h, d |-> stack[i].d, arg |-> arg, ev |-> evs,
                done |-> TRUE, inc |-> None, out |-> Out(evs, None)]
    /\ exc' = Out(evs, None)
    /\ UNCHANGED <<proc, display, handlers>>

\* The frame f after a call op(arg) on its handle that made the calls evs.
Recorded(f, op, arg, evs) ==
    IF ~f.rec THEN f
    ELSE IF Raises(evs) # {} THEN [f EXCEPT !.rec = FALSE, !.hist = <<>>]
    ELSE [f EXCEPT !.hist = @ \o <<Ev("caller", op, arg, "ok")>> \o evs]

\* The calls the caller made on the handle of frame f, as far as recorded.
Issued(f) == Count(f.hist, "caller", "sample_complete")
             + Count(f.hist, "caller", "update_metrics")
             + Count(f.hist, "caller", "complete")

TeeTaskDisplaySampleComplete(i, sample, ra, rb) ==
    /\ i \in Open("task")
    /\ stack[i].rec => Issued(stack[i]) < MaxTrace
    /\ LET evs == TeeTaskDisplay_sample_complete(sample, ra, rb)
       IN  /\ TeeCall("_TeeTaskDisplay.sample_complete", i, sample, evs)
           /\ stack' = [stack EXCEPT
                           ![i] = Recorded(@, "sample_complete", sample, evs)]

TeeTaskDisplayUpdateMetrics(i, metrics, ra, rb) ==
    /\ i \in Open("task")
    /\ stack[i].rec => Issued(stack[i]) < MaxTrace
    /\ LET evs == TeeTaskDisplay_update_metrics(metrics, ra, rb)
       IN  /\ TeeCall("_TeeTaskDisplay.update_metrics", i, metrics, evs)
           /\ stack' = [stack EXCEPT
                           ![i] = Recorded(@, "update_metrics", metrics, evs)]

\* The frame counts the caller's complete(result) calls and the calls each
\* branch received.
TeeTaskDisplayComplete(i, result, ra, rb) ==
    /\ i \in Open("task")
    /\ stack[i].calls < MaxCalls
    /\ stack[i].rec => Issued(stack[i]) < MaxTrace
    /\ LET evs == TeeTaskDisplay_complete(result, ra, rb)
       IN  /\ TeeCall("_TeeTaskDisplay.complete", i, <<result>>, evs)
           /\ stack' = [stack EXCEPT
                           ![i] = [Recorded(@, "complete", <<result>>, evs)
                                      EXCEPT
                                      !.calls = @ + 1,
                                      !.fwdA = @ + Count(evs, "a", "complete"),
                                      !.fwdB = @ + Count(evs, "b", "complete"),
                                      !.aRaised = @ + Cardinality(
                                          {k \in Raises(evs) : evs[k].who = "a"})]]

TeeTaskDisplayProgressEnter(i, ra, rb, xa) ==
    LET evs == TeeTaskDisplay_progress_enter(ra, rb, xa)
    IN  /\ exc = None
        /\ i \in Open("task")
        /\ MayOpen("tee_progress", stack[i].d)
        /\ last' = [h |-> "_TeeTaskDisplay.progress", d |-> stack[i].d,
                    arg |-> <<>>, ev |-> evs, done |-> ~Entered(evs),
                    inc |-> None,
                    out |-> IF Entered(evs) THEN None ELSE Out(evs, None)]
        /\ exc' = IF Entered(evs) THEN None ELSE Out(evs, None)
        /\ stack' = IF Entered(evs)
                    THEN Append(stack, Frame("tee_progress", stack[i].d, evs))
                    ELSE stack
        /\ UNCHANGED <<proc, display, handlers>>

TeeTaskDisplayProgressExit(xb, xa) ==
    /\ stack # <<>>
    /\ Top.kind = "tee_progress"
    /\ LET evs == TeeTaskDisplay_progress_exit(exc, xb, xa)
       IN  /\ last' = [h |-> "_TeeTaskDisplay.progress", d |-> Top.d,
                       arg |-> <<>>, ev |-> Top.log \o evs, done |-> TRUE,
                       inc |-> exc, out |-> Out(evs, exc)]
           /\ exc' = Out(evs, exc)
    /\ stack' = Pop
    /\ UNCHANGED <<proc, display, handlers>>

\* ---- _TeeProgress, the handle of an open tee progress scope (frame i) ------
TeeProgressUpdate(i, n, ra, rb) ==
    /\ i \in Open("tee_progress")
    /\ TeeCall("_TeeProgress.update", i, <<n>>, TeeProgress_update(n, ra, rb))
    /\ UNCHANGED stack

TeeProgressComplete(i, ra, rb) ==
    /\ i \in Open("tee_progress")
    /\ TeeCall("_TeeProgress.complete", i, <<>>, TeeProgress_complete(ra, rb))
    /\ UNCHANGED stack

\* ---- FullLogDisplay, pass-through operations ---------------------------------
\* A call that opens no scope: print, display_counter, run_task_app.
PassCall(h, d, arg, evs) ==
    /\ exc = None
    /\ display[d].inited
    /\ MayOpen("progress", d)
    /\ last' = [h |-> h, d |-> d, arg |-> arg, ev |-> evs, done |-> TRUE,
                inc |-> None, out |-> Out(evs, None)]
    /\ exc' = Out(evs, None)
    /\ display' = AfterFinalize(d, evs)
    /\ handlers' = HandlersAfter(d, evs)
    /\ UNCHANGED <<proc, stack>>

Pass_print(d, message, r) ==
    PassCall("FullLogDisplay.print", d, <<message>>,
             FullLogDisplay_print(display[d].full, message, r))

DisplayCounter(d, caption, value, r) ==
    PassCall("FullLogDisplay.display_counter", d, <<caption, value>>,
             FullLogDisplay_display_counter(display[d].full, caption, value, r))

RunTaskApp(d, main, v) ==
    PassCall("FullLogDisplay.run_task_app", d, <<main>>,
             FullLogDisplay_run_task_app(display[d].full, main, v))

\* Entering a scope of kind progress or suspend.
PassEnter(h, kind, d, arg, evs) ==
    /\ exc = None
    /\ display[d].inited
    /\ MayOpen(kind, d)
    /\ last' = [h |-> h, d |-> d, arg |-> arg, ev |-> evs,
                done |-> ~Entered(evs), inc |-> None,
                out |-> IF Entered(evs) THEN None ELSE Out(evs, None)]
    /\ exc' = IF Entered(evs) THEN None ELSE Out(evs, None)
    /\ stack' = IF Entered(evs) THEN Append(stack, Frame(kind, d, evs))
                ELSE stack
    /\ display' = AfterFinalize(d, evs)
    /\ handlers' = HandlersAfter(d, evs)
    /\ UNCHANGED proc

\* Leaving the innermost scope, of kind progress or suspend.
PassExit(h, kind, arg, evs) ==
    /\ stack # <<>>
    /\ Top.kind = kind
    /\ last' = [h |-> h, d |-> Top.d, arg |-> arg, ev |-> Top.log \o evs,
                done |-> TRUE, inc |-> exc, out |-> Out(evs, exc)]
    /\ exc' = Out(evs, exc)
    /\ display' = AfterFinalize(Top.d, evs)
    /\ handlers' = HandlersAfter(Top.d, evs)
    /\ stack' = Pop
    /\ UNCHANGED proc

ProgressEnter(d, total, p) ==
    PassEnter("FullLogDisplay.progress", "progress", d, <<total>>,
              FullLogDisplay_progress_enter(display[d].full, total, p))

ProgressExit(x) ==
    /\ stack # <<>>
    /\ PassExit("FullLogDisplay.progress", "progress", Top.log[1].arg,
                FullLogDisplay_progress_exit(display[Top.d].full, exc, x))

SuspendEnter(d, r) ==
    PassEnter("FullLogDisplay.suspend_task_app", "suspend", d, <<>>,
              FullLogDisplay_suspend_task_app_enter(display[d].full, r))

SuspendExit(x) ==
    /\ stack # <<>>
    /\ PassExit("FullLogDisplay.suspend_task_app", "suspend", <<>>,
                FullLogDisplay_suspend_task_app_exit(display[Top.d].full, exc, x))

\* ---- the caller -------------------------------------------------------------
\* The body of the innermost open scope raises, or is cancelled.
BodyRaise(e) ==
    /\ exc = None
    /\ stack # <<>>
    /\ exc' = e
    /\ UNCHANGED <<proc, display, handlers, stack, last>>

\* The caller handles the exception in flight (an except clause in the body
\* of the innermost open scope, or the top level).
Catch ==
    /\ exc # None
    /\ exc' = None
    /\ UNCHANGED <<proc, display, handlers, stack, last>>

\* The construction of the display of a process that has one display; which
\* suffix its log path gets plays no part in what the display does later.
FirstDisplay(d) ==
    /\ \A e \in Displays : ~display[e].inited
    /\ FullLogDisplay_init(d, "0a1b2c3d")

\* One process, one display: the display is constructed once.
Next ==
    \/ \E d \in Displays : FirstDisplay(d)
    \/ \E d \in Displays, a \in ScreenArgs, r \in Enter3, f \in Calls2 :
            TaskScreenEnter(d, a.tasks, a.parallel, r[1], r[2], r[3], f[1], f[2])
    \/ \E x2, x1 \in Outcomes, f \in Calls2 : TaskScreenExit(x2, x1, f[1], f[2])
    \/ \E d \in Displays, profile \in Profiles, r \in Enter3 :
            TaskEnter(d, profile, FALSE, r[1], r[2], r[3])
    \/ \E x2, x1 \in Outcomes : TaskExit(x2, x1)
    \/ \E i \in DOMAIN stack, sample \in Samples, r \in Calls2 :
            TeeTaskDisplaySampleComplete(i, sample, r[1], r[2])
    \/ \E i \in DOMAIN stack, metrics \in MetricLists, r \in Calls2 :
            TeeTaskDisplayUpdateMetrics(i, metrics, r[1], r[2])
    \/ \E i \in DOMAIN stack, result \in TaskResults, r \in Calls2 :
            TeeTaskDisplayComplete(i, result, r[1], r[2])
    \/ \E i \in DOMAIN stack, r \in Enter3 :
            TeeTaskDisplayProgressEnter(i, r[1], r[2], r[3])
    \/ \E xb, xa \in Outcomes : TeeTaskDisplayProgressExit(xb, xa)
    \/ \E i \in DOMAIN stack, n \in Ns, r \in Calls2 :
            TeeProgressUpdate(i, n, r[1], r[2])
    \/ \E i \in DOMAIN stack, r \in Calls2 : TeeProgressComplete(i, r[1], r[2])
    \/ \E d \in Displays, message \in Messages, r \in Outcomes :
            Pass_print(d, message, r)
    \/ \E d \in Displays, c \in Counters, r \in Outcomes :
            DisplayCounter(d, c[1], c[2], r)
    \/ \E d \in Displays, main \in Mains, v \in AppResults \cup Raise :
            RunTaskApp(d, main, v)
    \/ \E d \in Displays, total \in Totals, p \in Handles \cup Raise :
            ProgressEnter(d, total, p)
    \/ \E x \in Outcomes : ProgressExit(x)
    \/ \E d \in Displays, r \in Outcomes : SuspendEnter(d, r)
    \/ \E x \in Outcomes : SuspendExit(x)
    \/ \E e \in BodyExceptions : BodyRaise(e)
    \/ Catch

Spec == Init /\ [][Next]_vars

\* One display, one task screen, task scopes whose calls are recorded.
NextTrace ==
    \/ \E d \in Displays : FirstDisplay(d)
    \/ \E d \in Displays, a \in ScreenArgs :
            TaskScreenEnter(d, a.tasks, a.parallel, "ok", "ok", "ok", "ok", "ok")
    \/ TaskScreenExit("ok", "ok", "ok", "ok")
    \/ \E d \in Displays, profile \in Profiles, r \in Enter3 :
            TaskEnter(d, profile, TRUE, r[1], r[2], r[3])
    \/ \E x2, x1 \in Outcomes : TaskExit(x2, x1)
    \/ \E i \in DOMAIN stack, sample \in Samples, r \in Calls2 :
            TeeTaskDisplaySampleComplete(i, sample, r[1], r[2])
    \/ \E i \in DOMAIN stack, metrics \in MetricLists, r \in Calls2 :
            TeeTaskDisplayUpdateMetrics(i, metrics, r[1], r[2])
    \/ \E i \in DOMAIN stack, result \in TaskResults, r \in Calls2 :
            TeeTaskDisplayComplete(i, result, r[1], r[2])
    \/ \E e \in BodyExceptions : BodyRaise(e)
    \/ Catch

SpecTrace == Init /\ [][NextTrace]_vars

\* One process, several displays constructed in it one after the other, the
\* resolver called from outside as well, the clock and the terminal changing.
NextLife ==
    \/ \E d \in Displays, sfx \in Suffixes : FullLogDisplay_init(d, sfx)
    \/ \E sfx \in Suffixes : DefaultPlainLogPath(sfx)
    \/ Tick
    \/ \E tty, jupyter \in BOOLEAN : EnvChange(tty, jupyter)
    \/ \E d \in Displays, a \in ScreenArgs :
            TaskScreenEnter(d, a.tasks, a.parallel, "ok", "ok", "ok", "ok", "ok")
    \/ \E f \in Calls2 : TaskScreenExit("ok", "ok", f[1], f[2])
    \/ \E d \in Displays, message \in Messages : Pass_print(d, message, "ok")
    \/ Catch

SpecLife == Init /\ [][NextLife]_vars

\* ---- properties ---------------------------------------------------------------
TeeOps ==
    {"_TeeProgress.update", "_TeeProgress.complete",
     "_TeeTaskDisplay.sample_complete", "_TeeTaskDisplay.update_metrics",
     "_TeeTaskDisplay.complete"}

\* The calls of a method run, without their arguments and results.
Shape(evs) == [i \in DOMAIN evs |-> <<evs[i].who, evs[i].op>>]

TaskFrames == {i \in DOMAIN stack : stack[i].kind = "task"}

\* The runs of task_screen of instance d that have ended.
Exits(d) ==
    display[d].screens
    - Cardinality({i \in DOMAIN stack :
                      stack[i].kind = "task_screen" /\ stack[i].d = d})

\* C1: in every tee call, branch a is called first, with the caller's
\* arguments, and every call on branch b comes after the call of the same
\* operation with the same arguments on branch a.
C1_TeeOrder ==
    last.h \in TeeOps =>
        /\ last.ev # <<>>
        /\ last.ev[1].who = "a"
        /\ \A i \in DOMAIN last.ev : last.ev[i].arg = last.arg
        /\ \A i \in DOMAIN last.ev :
              last.ev[i].who = "b" =>
                 \E j \in 1..(i - 1) :
                    /\ last.ev[j].who = "a"
                    /\ last.ev[j].op = last.ev[i].op
                    /\ last.ev[j].arg = last.ev[i].arg

\* C1 witness: update(3) on a Progress Tee reached a and then b.
C1_Witness ==
    /\ last.h = "_TeeProgress.update"
    /\ last.arg = <<3>>
    /\ Shape(last.ev) = <<<<"a", "update">>, <<"b", "update">>>>

\* C2: when the call on branch a raises in a tee call, branch b is not called
\* and the exception of a is what the caller gets.
C2_NoPartialFanOut ==
    last.h \in TeeOps =>
        \A i \in DOMAIN last.ev :
            (last.ev[i].who = "a" /\ last.ev[i].res = "raise") =>
                /\ \A j \in DOMAIN last.ev : last.ev[j].who # "b"
                /\ last.out = ExcOf(last.ev[i])

\* C2 witness: complete(result) on a Task Display Tee whose branch a raised,
\* the exception in flight in the caller.
C2_Witness ==
    /\ last.h = "_TeeTaskDisplay.complete"
    /\ last.ev[1].res = "raise"
    /\ exc = <<"a">>

\* C3, as claimed: no task scope has the terminal result on exactly one of its
\* two branches.
C3_BothOrNeither ==
    \A i \in TaskFrames : (stack[i].fwdA > 0) <=> (stack[i].fwdB > 0)

\* C3, amended: every complete(result) call reaches branch a; it reaches
\* branch b exactly when the call on a returned, so b never has a terminal
\* result that a has not, and a alone has it only when a's own call raised.
C3_BOnlyAfterA ==
    \A i \in TaskFrames :
        /\ stack[i].fwdA = stack[i].calls
        /\ stack[i].fwdA = stack[i].fwdB + stack[i].aRaised

\* C3 witness: a task scope whose branch a received the terminal result and
\* raised, branch b not having been called.
C3_Witness ==
    \E i \in TaskFrames :
        stack[i].fwdA = 1 /\ stack[i].fwdB = 0 /\ stack[i].aRaised = 1

\* C4, as claimed: a task-screen scope that was entered and has exited made
\* exactly one flush of the log file, one removal and one close of the handler.
C4_OneFlushRemoveClose ==
    (last.h = "FullLogDisplay.task_screen" /\ last.done /\ Entered(last.ev)) =>
        /\ Count(last.ev, "file", "flush") = 1
        /\ Count(last.ev, "logger", "removeHandler") = 1
        /\ Count(last.ev, "handler", "close") = 1

\* C5, as claimed: over the life of an instance its handler is attached once
\* and removed and closed no more than once.
C5_RemovedClosedOnce ==
    \A d \in Displays :
        display[d].inited =>
            /\ display[d].adds = 1
            /\ display[d].removes <= 1
            /\ display[d].closes <= 1

\* C5, amended: the handler is attached once, at construction; removal and
\* close are made together, at most once for each run of task_screen that has
\* ended and never elsewhere; the handler is on the logger exactly until the
\* first removal.
C5_OncePerExit ==
    \A d \in Displays :
        /\ display[d].adds = (IF display[d].inited THEN 1 ELSE 0)
        /\ display[d].removes <= Exits(d)
        /\ display[d].closes = display[d].removes
        /\ display[d].handlerClosed <=> display[d].removes > 0
        /\ d \in handlers <=> (display[d].inited /\ display[d].removes = 0)

\* C5 witness: an instance whose task-screen scope was opened twice and whose
\* handler removal and close were made twice.
C5_Witness ==
    \E d \in Displays :
        /\ display[d].removes = 2
        /\ display[d].closes = 2
        /\ d \notin handlers

\* C6, as claimed: the log file of an instance is opened once, and once a
\* task-screen scope of the instance has been entered and has exited, the file
\* is closed.
C6_FileReleased ==
    /\ \A d \in Displays : display[d].opens <= 1
    /\ (last.h = "FullLogDisplay.task_screen" /\ last.done /\ Entered(last.ev))
          => ~display[last.d].fileOpen

\* C7: a progress scope opened through a Task Display Tee opens one scope on a,
\* then one on b, yields a Progress Tee over the two and, on every exit, closes
\* the scope of b and then the scope of a, once each.
C7_ProgressScopeSymmetry ==
    /\ (last.h = "_TeeTaskDisplay.progress" /\ Entered(last.ev)) =>
          /\ Shape(SubSeq(last.ev, 1, 3))
               = <<<<"a", "progress.enter">>, <<"b", "progress.enter">>,
                   <<"caller", "yield">>>>
          /\ last.ev[3].arg = <<"TeeProgress", "a", "b">>
          /\ IF last.done
             THEN Shape(SubSeq(last.ev, 4, Len(last.ev)))
                    = <<<<"b", "progress.exit">>, <<"a", "progress.exit">>>>
             ELSE Len(last.ev) = 3
    /\ \A i \in DOMAIN stack :
          stack[i].kind = "tee_progress" =>
             Shape(stack[i].log)
               = <<<<"a", "progress.enter">>, <<"b", "progress.enter">>,
                   <<"caller", "yield">>>>

\* C7 witness: a tee progress scope left by an exception of its body, the exit
\* of b raising too, and a closed all the same.
C7_Witness ==
    /\ last.h = "_TeeTaskDisplay.progress"
    /\ last.done
    /\ last.inc = <<"body">>
    /\ Len(last.ev) = 5
    /\ last.ev[4].res = "raise"
    /\ last.ev[5].who = "a"

\* C8, as claimed: over the life of a task display handle each branch receives
\* complete(result) at most once.
C8_AtMostOncePerHandle ==
    \A i \in TaskFrames : stack[i].fwdA <= 1 /\ stack[i].fwdB <= 1

\* C8, amended: one complete(result) call on the tee is forwarded to each
\* branch at most once, so a branch never receives more terminal results than
\* the caller sent.
C8_AtMostOncePerCall ==
    /\ last.h = "_TeeTaskDisplay.complete" =>
          /\ Count(last.ev, "a", "complete") <= 1
          /\ Count(last.ev, "b", "complete") <= 1
    /\ \A i \in TaskFrames :
          stack[i].fwdA <= stack[i].calls /\ stack[i].fwdB <= stack[i].calls

\* C8 witness: a handle on which complete(result) was called twice, both calls
\* forwarded to both branches.
C8_Witness ==
    \E i \in TaskFrames :
        stack[i].calls = 2 /\ stack[i].fwdA = 2 /\ stack[i].fwdB = 2

\* C9: task_screen enters the scope of the rich display, then the scope of the
\* sink, yields the screen of the rich display; on exit the sink scope exits,
\* then the rich scope, and only then the file is flushed, the handler removed
\* and the handler closed, in this order.
C9_TaskScreenOrder ==
    (last.h = "FullLogDisplay.task_screen" /\ Entered(last.ev)) =>
        /\ Shape(SubSeq(last.ev, 1, 3))
             = <<<<"full", "task_screen.enter">>, <<"sink", "task_screen.enter">>,
                 <<"caller", "yield">>>>
        /\ last.ev[3].arg = <<"screen", "full">>
        /\ IF last.done
           THEN /\ Len(last.ev) >= 6
                /\ Shape(SubSeq(last.ev, 4, 6))
                     = <<<<"sink", "task_screen.exit">>,
                         <<"full", "task_screen.exit">>, <<"file", "flush">>>>
                /\ Len(last.ev) >= 7 => Shape(last.ev)[7] = <<"logger", "removeHandler">>
                /\ Len(last.ev) >= 8 => Shape(last.ev)[8] = <<"handler", "close">>
                /\ Len(last.ev) <= 8
           ELSE Len(last.ev) = 3

\* C9 witness: a task-screen scope that was entered and left, both nested
\* exits and the three steps of the finally clause made.
C9_Witness ==
    /\ last.h = "FullLogDisplay.task_screen"
    /\ last.done
    /\ Entered(last.ev)
    /\ Len(last.ev) = 8

\* C10: task(profile) opens a scope on the rich display and one on the sink for
\* the caller's profile, yields a Task Display Tee over the two and, on every
\* exit, closes the scope of the sink and then the scope of the rich display,
\* once each.
C10_TaskScopes ==
    /\ (last.h = "FullLogDisplay.task" /\ Entered(last.ev)) =>
          /\ Shape(SubSeq(last.ev, 1, 3))
               = <<<<"full", "task.enter">>, <<"sink", "task.enter">>,
                   <<"caller", "yield">>>>
          /\ last.ev[1].arg = last.arg
          /\ last.ev[2].arg = last.arg
          /\ last.ev[3].arg = <<"TeeTaskDisplay", "full", "sink">>
          /\ IF last.done
             THEN Shape(SubSeq(last.ev, 4, Len(last.ev)))
                    = <<<<"sink", "task.exit">>, <<"full", "task.exit">>>>
             ELSE Len(last.ev) = 3
    /\ \A i \in TaskFrames :
          Shape(stack[i].log)
            = <<<<"full", "task.enter">>, <<"sink", "task.enter">>,
                <<"caller", "yield">>>>

\* C10 witness: a task scope for profile p2 left by an exception of its body,
\* the exit of the sink scope raising too, and the rich scope closed all the
\* same.
C10_Witness ==
    /\ last.h = "FullLogDisplay.task"
    /\ last.done
    /\ last.arg = <<"p2">>
    /\ last.inc = <<"body">>
    /\ Len(last.ev) = 5
    /\ last.ev[4].res = "raise"
    /\ last.ev[5].who = "full"

\* ---- traces of a task scope ----------------------------------------------------
\* The calls, with their arguments, that the parties in S saw in the events evs.
Calls(evs, S) ==
    LET sel == SelectSeq(evs, LAMBDA e : e.who \in S /\ e.op # "yield")
    IN  [i \in DOMAIN sel |-> <<sel[i].op, sel[i].arg>>]

\* C11: in a task scope in which no branch call raises, each branch sees one
\* opening of the scope, then every update_metrics, sample_complete and
\* complete call of the caller, in the caller's order and with the caller's
\* arguments, then one closing of the scope; the traces of the two branches
\* are equal.
C11_SameTrace ==
    /\ \A i \in TaskFrames :
          stack[i].rec =>
             /\ Calls(stack[i].hist, {"a"}) = Calls(stack[i].hist, {"caller"})
             /\ Calls(stack[i].hist, {"b"}) = Calls(stack[i].hist, {"caller"})
    /\ (/\ last.h = "FullLogDisplay.task"
        /\ last.done
        /\ Entered(last.ev)
        /\ Raises(last.ev) = {}) =>
          LET issued == <<<<"task.enter", last.arg>>>>
                        \o Calls(last.ev, {"caller"})
                        \o <<<<"task.exit", <<last.inc>>>>>>
          IN  /\ Calls(last.ev, {"full", "a"}) = issued
              /\ Calls(last.ev, {"sink", "b"}) = issued

\* C11 witness: a task scope has closed in which the caller reported metrics,
\* a sample count and the result, and no call raised.
C11_Witness ==
    /\ last.h = "FullLogDisplay.task"
    /\ last.done
    /\ Raises(last.ev) = {}
    /\ Calls(last.ev, {"sink", "b"}) =
          <<<<"task.enter", <<"p1">>>>,
            <<"update_metrics", <<"accuracy">>>>,
            <<"sample_complete", <<1, 2>>>>,
            <<"complete", <<"success">>>>,
            <<"task.exit", <<None>>>>>>

\* ---- pass-through operations -----------------------------------------------------
PassOps ==
    {"FullLogDisplay.print", "FullLogDisplay.display_counter",
     "FullLogDisplay.run_task_app", "FullLogDisplay.progress",
     "FullLogDisplay.suspend_task_app"}

\* C12: print, progress(total), run_task_app(main), suspend_task_app and
\* display_counter call the rich backend only, never the sink; they leave the
\* log file, the handler and every instance as they were; progress yields the
\* handle of the rich backend and run_task_app returns what the rich backend
\* returned.
C12_PassThrough ==
    /\ [](last.h \in PassOps =>
            /\ last.ev # <<>>
            /\ last.ev[1].who = display[last.d].full
            /\ \A i \in DOMAIN last.ev :
                  last.ev[i].who \in {display[last.d].full, "caller"}
            /\ \A i \in DOMAIN last.ev :
                  last.ev[i].op \in {"yield", "return"} =>
                     /\ i = 2
                     /\ last.h = "FullLogDisplay.suspend_task_app"
                        \/ last.ev[i].arg = <<last.ev[1].res>>)
    /\ [][last'.h \in PassOps =>
            /\ display' = display
            /\ handlers' = handlers
            /\ proc'.data = proc.data]_vars

\* C12 witness: inside an open task screen run_task_app(main) returned the
\* result of the rich backend.
C12_Witness ==
    /\ last.h = "FullLogDisplay.run_task_app"
    /\ Open("task_screen") # {}
    /\ last.ev = <<Ev("textual", "run_task_app", <<"main1">>, "v1"),
                   Ev("caller", "return", <<"v1">>, "ok")>>
    /\ last.d \in handlers

\* ---- failures of teardown and of scope bodies ------------------------------------
\* The calls of the finally clause of task_screen that raised in the events evs.
TeardownRaises(evs) ==
    {i \in Raises(evs) :
        <<evs[i].who, evs[i].op>> \in {<<"file", "flush">>, <<"handler", "close">>}}

\* C13, as claimed: every run of task_screen makes the flush and the handler
\* removal, whatever fails, and a failure of the flush or of the handler close
\* is the exception the caller gets from the exit of the scope.
C13_TeardownUnconditional ==
    (last.h = "FullLogDisplay.task_screen" /\ last.done) =>
        /\ Count(last.ev, "file", "flush") = 1
        /\ Count(last.ev, "logger", "removeHandler") = 1
        /\ \A i \in TeardownRaises(last.ev) : last.out = ExcOf(last.ev[i])

ScopeOps ==
    {"FullLogDisplay.task_screen", "FullLogDisplay.task",
     "FullLogDisplay.progress", "FullLogDisplay.suspend_task_app",
     "_TeeTaskDisplay.progress"}

C15_ForeignHandlersKept ==
    /\ [](Foreign \subseteq handlers)
    /\ [][/\ \A x \in handlers \ handlers' :
                x = last'.d /\ last'.h = "FullLogDisplay.task_screen"
          /\ \A x \in handlers' \ handlers :
                x = last'.d /\ last'.h = "FullLogDisplay.__init__"]_vars

\* C15 witness: two instances were constructed, the task screen of the first
\* has been torn down and its handler is gone; the handler of the second
\* and the foreign one are attached.
C15_Witness ==
    /\ display[1].removes = 1
    /\ handlers = Foreign \cup {2}

\* C16: in one process the resolver computes the path at most once; once it
\* has one, the path never changes, and every call, from a display or from
\* outside, returns that one path whatever the clock and the random suffix
\* are by then.
C16_PathMemoized ==
    /\ [](/\ proc.evals <= 1
          /\ last.h = "default_plain_log_path" => last.ev[1].arg = <<proc.path>>
          /\ \A d \in Displays :
                display[d].inited => display[d].log_path = proc.path)
    /\ [][proc.path # None => proc'.path = proc.path]_vars

\* C16 witness: the path was resolved at time 1 for a display; a call from
\* outside at time 2 returned the same path.
C16_Witness ==
    /\ last.h = "default_plain_log_path"
    /\ proc.now = 2
    /\ display[1].inited
    /\ last.ev[1].arg = <<display[1].log_path>>
    /\ display[1].log_path[1] = 1

\* C17: the constructor makes the rich backend the interactive renderer
\* exactly when standard output is a terminal and the host is no notebook,
\* and the plain renderer otherwise; the instance keeps that backend, and its
\* later rich-side calls go to it, whatever the terminal becomes.
C17_BackendChosenOnce ==
    /\ [](last.h = "FullLogDisplay.__init__" =>
            /\ display[last.d].full \in {"textual", "plain"}
            /\ display[last.d].full = "textual" <=> (last.arg[1] /\ ~last.arg[2]))
    /\ [](last.h = "FullLogDisplay.print" =>
            last.ev[1].who = display[last.d].full)
    /\ [][\A d \in Displays :
            display[d].inited => display'[d].full = display[d].full]_vars

\* C17 witness: an instance constructed on a terminal prints to the
\* interactive renderer after standard output has stopped being a terminal,
\* next to an instance constructed in a notebook, which has the plain one.
C17_Witness ==
    /\ last.h = "FullLogDisplay.print"
    /\ last.d = 1
    /\ last.ev[1].who = "textual"
    /\ ~proc.tty
    /\ display[2].full = "plain"

\* ---- a second scope that cannot be entered --------------------------------------
TwoScopeOps ==
    {"FullLogDisplay.task_screen", "FullLogDisplay.task", "_TeeTaskDisplay.progress"}

ExitOps == {"task_screen.exit", "task.exit", "progress.exit"}

\* The exits of scopes the parties in S saw in the events evs.
ExitsOf(evs, S) ==
    Cardinality({i \in DOMAIN evs : evs[i].who \in S /\ evs[i].op \in ExitOps})

\* C18, as claimed: when entering the second scope raises after the first was
\* entered, the first scope is exited once, the second never, nothing is
\* yielded, the caller gets an exception, and in task_screen the flush, the
\* handler removal and the handler close are each made.
C18_SecondEnterRaises ==
    (/\ last.h \in TwoScopeOps
     /\ Len(last.ev) >= 2
     /\ last.ev[2].who \in {"sink", "b"}
     /\ last.ev[2].res = "raise") =>
        /\ ExitsOf(last.ev, {"full", "a"}) = 1
        /\ ExitsOf(last.ev, {"sink", "b"}) = 0
        /\ ~Entered(last.ev)
        /\ last.out # None
        /\ last.h = "FullLogDisplay.task_screen" =>
              /\ Count(last.ev, "file", "flush") = 1
              /\ Count(last.ev, "logger", "removeHandler") = 1
              /\ Count(last.ev, "handler", "close") = 1

\* ---- who detaches the handler --------------------------------------------------
\* C19: as long as no run of task_screen of an instance has ended, its handler
\* is on the root logger and open and its log file is open and was never
\* flushed by the instance; and a step of any other operation (print,
\* progress, run_task_app, suspend_task_app, display_counter, task, a tee
\* call) takes no handler off, closes none, and flushes or closes no log file.
C19_OnlyTaskScreenDetaches ==
    /\ [](\A d \in Displays :
            (display[d].inited /\ Exits(d) = 0) =>
                /\ d \in handlers
                /\ display[d].fileOpen
                /\ ~display[d].handlerClosed
                /\ display[d].flushes = 0
                /\ display[d].removes = 0
                /\ display[d].closes = 0)
    /\ [][last'.h # "FullLogDisplay.task_screen" =>
            /\ handlers \subseteq handlers'
            /\ \A d \in Displays :
                  /\ display[d].fileOpen => display'[d].fileOpen
                  /\ display'[d].handlerClosed = display[d].handlerClosed
                  /\ display'[d].flushes = display[d].flushes
                  /\ display'[d].removes = display[d].removes
                  /\ display'[d].closes = display[d].closes]_vars

\* C19 witness: inside the open task screen a task scope was opened and
\* closed again after a complete(result) call; the handler is still attached.
C19_Witness ==
    /\ last.h = "FullLogDisplay.task"
    /\ last.done
    /\ Entered(last.ev)
    /\ Open("task_screen") # {}
    /\ Exits(last.d) = 0
    /\ last.d \in handlers
    /\ display[last.d].flushes = 0

\* C20: the instances constructed in one process all have the one memoized
\* log path, and each construction opens that file for write, which empties
\* it: no two instances have different backing files.
C20_OneBackingFile ==
    /\ \A d, e \in Displays :
          (display[d].inited /\ display[e].inited) =>
              /\ display[d].log_path # None
              /\ display[d].log_path = display[e].log_path
    /\ last.h = "FullLogDisplay.__init__" =>
          /\ last.ev[1].op = "open"
          /\ last.ev[1].arg = <<display[last.d].log_path, "w">>
          /\ ~proc.data

\* C20 witness: a second instance was constructed after the sink of the first
\* had written to the log file: same path, and the file was emptied.
C20_Witness ==
    /\ last.h = "FullLogDisplay.__init__"
    /\ last.d = 2
    /\ last.ev[1].res = "truncated"
    /\ display[1].log_path = display[2].log_path
    /\ display[1].fileOpen

====
